---------------------------- MODULE Spec2Model ----------------------------
(***************************************************************************)
(* A model of the strategy optimizer of cn-stock-agent                     *)
(* (src/auto_strategy_optimizer.py): the parameter grid search             *)
(* (optimize_strategy_params), the backtest (backtest_strategy) and the    *)
(* live signal classification (generate_trading_signals).                  *)
(*                                                                         *)
(* Numbers.  Python floats are modelled by exact arithmetic on scaled      *)
(* integers and fractions:                                                 *)
(*   - BUY_MARGIN / SELL_MARGIN are counted in units of 1/MarginUnit       *)
(*     (0.008, 0.01, 0.012 are 4, 5, 6 five-hundredths);                   *)
(*   - transaction_cost is counted in units of 1/CostUnit (0.0015 = 3);    *)
(*   - a rolling mean is the fraction [num, den] of the window's sum and   *)
(*     its number of bars, compared by cross-multiplication;               *)
(*   - the metrics the optimizer aggregates are counted in hundredths,     *)
(*     their means over the valid stocks in 1/MeanUnit of a hundredth,     *)
(*     and the composite score in tenths of that.                          *)
(* Float rounding is therefore not modelled.                               *)
(***************************************************************************)
EXTENDS Integers, Sequences, FiniteSets, TLC

VARIABLES
    \* ---- optimize_strategy_params ----
    pc,             \* "scan" | "done" | "aborted"
    combo_idx,      \* position of the for loop in param_combinations (1-based)
    sym_idx,        \* next row of test_stocks to backtest for this combination
    stock_metrics,  \* stock_metrics of the combination being evaluated
    best_score,     \* [fin |-> FALSE] is -inf
    best_params,
    all_results,
    evaluated,      \* history: the params whose loop body has completed
    calls,          \* history: number of backtest_strategy calls made
    causes,         \* history: why backtests so far returned None
    log_rows,       \* rows appended to PARAM_LOG_PATH
    reported,       \* the "最优参数性能" figures printed (top_result)
    returned,       \* the value optimize_strategy_params returned
    table,          \* SpecOpt only: the return values of backtest_strategy
    \* ---- backtest_strategy: the trading loop ----
    bt_pc,          \* "idle" | "loop" | "done"
    df,             \* the fetched bar series
    params,         \* the parameter set under test
    idx,            \* the row the for loop is at (1-based; dates are row numbers)
    position,       \* 0 = flat, 1 = long
    buy_price,
    buy_date,
    trades,
    sells,          \* history: number of LONG -> FLAT transitions
    bt_result,      \* the value backtest_strategy returned
    \* ---- generate_trading_signals ----
    sig_pc,         \* "idle" | "loop" | "saved"
    top5_stocks,    \* per row, what the history fetch of that stock yields
    stock_no,       \* the row of top5_stocks being processed
    sig_df,         \* df: the bars last fetched (tail(30))
    sig_params,     \* best_params
    latest_signal,  \* signal: the last classification made
    trading_signals,\* the rows appended so far
    \* ---- select_top5_stocks / calculate_short_term_score ----
    sel_pc,         \* "idle" | "score" | "done"
    tradable_stocks,\* per row of the pool, what scoring that stock reads
    scores,         \* scores, one per row scored so far
    selected,       \* top5_stocks as returned: rows [code, score, tier]
    \* ---- main.py / trading_signal.generate_signal ----
    gs_pc,          \* "idle" | "primary" | "backup" | "returned" | "raised" | "exit"
    primary,        \* what ak.stock_zh_a_hist yields
    backup,         \* what ak.stock_zh_a_hist_min_em yields
    attempts,       \* the data sources called so far, in order
    gs_errors,      \* the exceptions caught inside generate_signal, in order
    gs_result,      \* what generate_signal returned or raised
    output,         \* what main() printed last
    exit_status     \* the status main() leaves with

optVars == <<pc, combo_idx, sym_idx, stock_metrics, best_score, best_params,
             all_results, evaluated, calls, causes, log_rows, reported,
             returned, table>>
btVars  == <<bt_pc, df, params, idx, position, buy_price, buy_date, trades,
             sells, bt_result>>
sigVars == <<sig_pc, top5_stocks, stock_no, sig_df, sig_params, latest_signal,
             trading_signals>>
selVars == <<sel_pc, tradable_stocks, scores, selected>>
gsVars  == <<gs_pc, primary, backup, attempts, gs_errors, gs_result, output,
             exit_status>>
vars    == <<optVars, btVars, sigVars, selVars, gsVars>>

---------------------------------------------------------------------------
(* Helpers *)

RECURSIVE SumSeq(_)
SumSeq(s) == IF s = <<>> THEN 0 ELSE Head(s) + SumSeq(Tail(s))

RECURSIVE GCD(_, _)
GCD(a, b) == IF b = 0 THEN a ELSE GCD(b, a % b)

Abs(x) == IF x < 0 THEN -x ELSE x
Max(a, b) == IF a >= b THEN a ELSE b
Min(a, b) == IF a <= b THEN a ELSE b

---------------------------------------------------------------------------
(* Configuration *)

MarginUnit == 500
CostUnit   == 2000

\* PARAM_SEARCH_CONFIG, in dict order
MA_SHORT_VALUES            == <<4, 5, 6>>
MA_LONG_VALUES             == <<18, 20, 22>>
SUPPORT_RESIST_DAYS_VALUES == <<4, 5, 6>>
BUY_MARGIN_VALUES          == <<4, 5, 6>>      \* 0.008, 0.01, 0.012
SELL_MARGIN_VALUES         == <<4, 5, 6>>      \* 0.008, 0.01, 0.012

\* BACKTEST_CONFIG
history_days     == 180
transaction_cost == 3                           \* 0.0015
W_annual_return  == 6                           \* 0.6
W_win_rate       == 3                           \* 0.3
W_max_drawdown   == -1                          \* -0.1

StrategyParams(ms, ml, sr, bm, sm) ==
    [MA_SHORT |-> ms, MA_LONG |-> ml, SUPPORT_RESIST_DAYS |-> sr,
     BUY_MARGIN |-> bm, SELL_MARGIN |-> sm]

\* the grid as a set: every assignment of one candidate to each parameter
Grid ==
    { StrategyParams(MA_SHORT_VALUES[a], MA_LONG_VALUES[b],
                     SUPPORT_RESIST_DAYS_VALUES[c], BUY_MARGIN_VALUES[d],
                     SELL_MARGIN_VALUES[e]) :
        a \in 1..3, b \in 1..3, c \in 1..3, d \in 1..3, e \in 1..3 }


\* product(*PARAM_SEARCH_CONFIG.values()): the i-th combination, i in 0..242,
\* the rightmost parameter varying fastest
Combo(i) ==
    StrategyParams(MA_SHORT_VALUES[((i \div 81) % 3) + 1],
                   MA_LONG_VALUES[((i \div 27) % 3) + 1],
                   SUPPORT_RESIST_DAYS_VALUES[((i \div 9) % 3) + 1],
                   BUY_MARGIN_VALUES[((i \div 3) % 3) + 1],
                   SELL_MARGIN_VALUES[(i % 3) + 1])

total_combinations == 3 * 3 * 3 * 3 * 3

param_combinations == [i \in 1..total_combinations |-> Combo(i - 1)]

\* test_stocks = top5_stocks.head(3)
NumTestStocks == 3

DefaultParams == StrategyParams(5, 20, 5, 5, 5)

---------------------------------------------------------------------------
(* backtest_strategy, as optimize_strategy_params sees it *)

None == [kind |-> "None"]

Metrics(a, w, d, t) ==
    [kind |-> "metrics", annual_return |-> a, win_rate |-> w,
     max_drawdown |-> d, trade_count |-> t]

\* what ak.stock_zh_a_hist can do for one call: raise, or return n bars
Fetches ==
    { [ok |-> FALSE, len |-> 0] } \cup
    { [ok |-> TRUE, len |-> n] : n \in {0, 143, 144, history_days} }

\* Lines 260-269 as Python evaluates them.  `&` and `|` bind tighter than the
\* comparisons, so the first operation performed is
\*     df["ma_long"].shift(1) & df["ma_short"]
\* on two float64 columns, which raises TypeError for every series of two or
\* more bars (and the chained comparison around it would need the truth value
\* of a Series, a ValueError).  No buy_signal or sell_signal column is built.
SignalColumns(fetch, p) == [raised |-> TRUE, exc |-> "TypeError"]

\* why a call produced no result (history only)
NoResultCause(fetch, p) ==
    IF ~fetch.ok THEN "fetch_failure"
    ELSE IF fetch.len * 10 < history_days * 8 THEN "insufficient_history"
    ELSE IF SignalColumns(fetch, p).raised THEN "internal_exception"
    ELSE "none"

\* backtest_strategy with the try/except covering the fetch only
backtest_strategy_uncaught(fetch, p) ==
    IF ~fetch.ok THEN None
    ELSE IF fetch.len * 10 < history_days * 8 THEN None
    ELSE IF SignalColumns(fetch, p).raised THEN [kind |-> "raise"]
    ELSE [kind |-> "loop"]

\* backtest_strategy(stock_code, params): the whole body is inside
\* try/except Exception, which returns None
backtest_strategy(fetch, p) ==
    IF ~fetch.ok THEN None                                   \* caught, line 318
    ELSE IF fetch.len * 10 < history_days * 8 THEN None      \* line 249
    ELSE IF SignalColumns(fetch, p).raised THEN None         \* caught, line 318
    ELSE [kind |-> "loop"]                                   \* lines 271-317

---------------------------------------------------------------------------
(* optimize_strategy_params *)

MeanUnit == 6

\* np.mean of a list of 2 or 3 values, in 1/MeanUnit
Mean(xs) == (SumSeq(xs) * MeanUnit) \div Len(xs)

Column(ms, f) == [i \in 1..Len(ms) |-> ms[i][f]]

NegInf == [fin |-> FALSE, val |-> 0]
Score(v) == [fin |-> TRUE, val |-> v]

\* a scan that lets a later combination of equal score replace the best
ScoreGreaterOrEqual(score, best) == ~best.fin \/ score.val >= best.val

\* score > best_score
ScoreGreater(score, best) == ~best.fin \/ score.val > best.val

\* a test that accepts any result with a trade
CountsWithOneTrade(metrics) ==
    metrics.kind = "metrics" /\ metrics.trade_count >= 1

\* metrics and metrics["trade_count"] >= 2
CountsAsValid(metrics) == metrics.kind = "metrics" /\ metrics.trade_count >= 2

ResultRow(p, ms) ==
    LET avg_annual_return == Mean(Column(ms, "annual_return"))
        avg_win_rate      == Mean(Column(ms, "win_rate"))
        avg_max_drawdown  == Mean(Column(ms, "max_drawdown"))
    IN  [params        |-> p,
         annual_return |-> avg_annual_return,
         win_rate      |-> avg_win_rate,
         max_drawdown  |-> avg_max_drawdown,
         trade_count   |-> Mean(Column(ms, "trade_count")),
         score         |-> avg_annual_return * W_annual_return
                           + avg_win_rate * W_win_rate
                           + avg_max_drawdown * W_max_drawdown]

\* index of the first row of rows with the highest score
FirstMax(rows) ==
    CHOOSE i \in 1..Len(rows) :
        /\ \A j \in 1..Len(rows) : rows[j].score <= rows[i].score
        /\ \A j \in 1..(i - 1) : rows[j].score < rows[i].score

RemoveAt(s, i) == SubSeq(s, 1, i - 1) \o SubSeq(s, i + 1, Len(s))

\* result_df.sort_values("综合评分", ascending=False).head(n); rows of equal
\* score are kept in their original order
RECURSIVE SortHead(_, _)
SortHead(rows, n) ==
    IF n = 0 \/ rows = <<>> THEN <<>>
    ELSE LET i == FirstMax(rows)
         IN  <<rows[i]>> \o SortHead(RemoveAt(rows, i), n - 1)

LogHead == 10

\* one call metrics = backtest_strategy(row["code"], params) and the test
\* that follows it; an exception escaping the call would leave the function
AfterBacktest(metrics, cause) ==
    /\ calls' = calls + 1
    /\ causes' = IF metrics.kind = "None" THEN causes \cup {cause} ELSE causes
    /\ IF metrics.kind = "raise"
       THEN /\ pc' = "aborted"
            /\ UNCHANGED <<sym_idx, stock_metrics>>
       ELSE /\ pc' = pc
            /\ sym_idx' = sym_idx + 1
            /\ stock_metrics' = IF CountsAsValid(metrics)
                                THEN Append(stock_metrics, metrics)
                                ELSE stock_metrics
    /\ UNCHANGED <<combo_idx, best_score, best_params, all_results, evaluated,
                   log_rows, reported, returned, table>>

InScan ==
    /\ pc = "scan"
    /\ combo_idx <= total_combinations

BacktestCall ==
    /\ InScan
    /\ sym_idx <= NumTestStocks
    /\ \E fetch \in Fetches :
         AfterBacktest(backtest_strategy(fetch, param_combinations[combo_idx]),
                       NoResultCause(fetch, param_combinations[combo_idx]))
    /\ UNCHANGED <<btVars, sigVars, selVars, gsVars>>

\* the rest of the loop body, lines 354-381
ScoreCombo ==
    /\ InScan
    /\ sym_idx > NumTestStocks
    /\ LET p   == param_combinations[combo_idx]
           row == ResultRow(p, stock_metrics)
       IN  /\ evaluated' = Append(evaluated, p)
           /\ IF Len(stock_metrics) < 2
              THEN UNCHANGED <<all_results, best_score, best_params>>
              ELSE /\ all_results' = Append(all_results, row)
                   /\ IF ScoreGreater(Score(row.score), best_score)
                      THEN /\ best_score' = Score(row.score)
                           /\ best_params' = p
                      ELSE UNCHANGED <<best_score, best_params>>
    /\ combo_idx' = combo_idx + 1
    /\ sym_idx' = 1
    /\ stock_metrics' = <<>>
    /\ UNCHANGED <<pc, calls, causes, log_rows, reported, returned, table>>
    /\ UNCHANGED <<btVars, sigVars, selVars, gsVars>>

NoReport == [printed |-> FALSE]

\* lines 383-401: the log, the report and the return
SaveAndReturn ==
    /\ pc = "scan"
    /\ combo_idx > total_combinations
    /\ log_rows' = IF all_results # <<>>
                   THEN log_rows \o SortHead(all_results, LogHead)
                   ELSE log_rows
    /\ reported' = IF all_results # <<>>
                   THEN LET top_result == all_results[1]
                        IN  [printed       |-> TRUE,
                             annual_return |-> top_result.annual_return,
                             win_rate      |-> top_result.win_rate,
                             max_drawdown  |-> top_result.max_drawdown,
                             trade_count   |-> top_result.trade_count]
                   ELSE NoReport
    /\ returned' = [done |-> TRUE, params |-> best_params]
    /\ pc' = "done"
    /\ UNCHANGED <<combo_idx, sym_idx, stock_metrics, best_score, best_params,
                   all_results, evaluated, calls, causes, table>>
    /\ UNCHANGED <<btVars, sigVars, selVars, gsVars>>

NotReturned == [done |-> FALSE, params |-> DefaultParams]

OptStart ==
    /\ pc = "scan"
    /\ combo_idx = 1
    /\ sym_idx = 1
    /\ stock_metrics = <<>>
    /\ best_score = NegInf
    /\ best_params = DefaultParams
    /\ all_results = <<>>
    /\ evaluated = <<>>
    /\ calls = 0
    /\ causes = {}
    /\ log_rows = <<>>
    /\ reported = NoReport
    /\ returned = NotReturned

BtIdle ==
    /\ bt_pc = "idle"
    /\ df = <<>>
    /\ params = DefaultParams
    /\ idx = 1
    /\ position = 0
    /\ buy_price = 0
    /\ buy_date = 0
    /\ trades = <<>>
    /\ sells = 0
    /\ bt_result = None

SigIdle ==
    /\ sig_pc = "idle"
    /\ top5_stocks = <<>>
    /\ stock_no = 1
    /\ sig_df = <<>>
    /\ sig_params = DefaultParams
    /\ latest_signal = "none"
    /\ trading_signals = <<>>

\* select_top5_stocks has not been entered
SelIdle ==
    /\ sel_pc = "idle"
    /\ tradable_stocks = <<>>
    /\ scores = <<>>
    /\ selected = <<>>

\* main() of main.py has not been entered
NoOutcome == [kind |-> "none"]

GsIdle ==
    /\ gs_pc = "idle"
    /\ primary = NoOutcome
    /\ backup = NoOutcome
    /\ attempts = <<>>
    /\ gs_errors = <<>>
    /\ gs_result = NoOutcome
    /\ output = NoOutcome
    /\ exit_status = 0

NoTable == <<>>

\* The program as written: every backtest goes through backtest_strategy.
Init ==
    /\ OptStart
    /\ SelIdle
    /\ GsIdle
    /\ table = NoTable
    /\ BtIdle
    /\ SigIdle

Next ==
    \/ BacktestCall
    \/ ScoreCombo
    \/ SaveAndReturn

Spec == Init /\ [][Next]_vars


---------------------------------------------------------------------------
(* optimize_strategy_params over given backtest results.                   *)
(* SpecOpt puts a table of return values in the place of                   *)
(* backtest_strategy: what the scan does with the results it is handed.    *)
(* table[k] holds the results of the three test stocks for the             *)
(* combinations of key k.                                                  *)

ZeroTrades == Metrics(0, 0, 0, 0)               \* line 298
OneTrade   == Metrics(5, 100, 0, 1)
ResultA    == Metrics(20, 50, -10, 2)
ResultB    == Metrics(10, 100, 0, 3)
ResultC    == Metrics(30, 60, 0, 2)

Profiles ==
    { <<None, None, None>>,
      <<None, ZeroTrades, ResultA>>,
      <<ResultA, OneTrade, ResultA>>,
      <<ResultB, ResultB, ResultB>>,
      <<ResultC, ZeroTrades, ResultC>> }

NumKeys == 2

StubKey(p) == ((p.MA_SHORT + p.SELL_MARGIN) % NumKeys) + 1

BacktestReturns ==
    /\ InScan
    /\ sym_idx <= NumTestStocks
    /\ AfterBacktest(table[StubKey(param_combinations[combo_idx])][sym_idx],
                     "stub")
    /\ UNCHANGED <<btVars, sigVars, selVars, gsVars>>

InitOpt ==
    /\ OptStart
    /\ SelIdle
    /\ GsIdle
    /\ table \in [1..NumKeys -> Profiles]
    /\ BtIdle
    /\ SigIdle

NextOpt ==
    \/ BacktestReturns
    \/ ScoreCombo
    \/ SaveAndReturn

SpecOpt == InitOpt /\ [][NextOpt]_vars

---------------------------------------------------------------------------
(* Claims about optimize_strategy_params *)

\* the results the table gives combination p that count: a metrics record
\* with at least two trades
CountingResults(p) ==
    LET prof == table[StubKey(p)]
        keep == { k \in 1..NumTestStocks :
                    prof[k].kind = "metrics" /\ prof[k].trade_count >= 2 }
    IN  [k \in keep |-> prof[k]]

IsValidCombo(i) ==
    Cardinality(DOMAIN CountingResults(param_combinations[i])) >= 2

\* composite score of combination i from the table, in the model's units:
\* 0.6 * mean annual_return + 0.3 * mean win_rate - 0.1 * mean max_drawdown
TableScore(i) ==
    LET cr == CountingResults(param_combinations[i])
        n  == Cardinality(DOMAIN cr)
        RECURSIVE Tot(_, _)
        Tot(f, S) == IF S = {} THEN 0
                     ELSE LET k == CHOOSE x \in S : TRUE
                          IN  cr[k][f] + Tot(f, S \ {k})
    IN  ((Tot("annual_return", DOMAIN cr) * MeanUnit) \div n) * 6
        + ((Tot("win_rate", DOMAIN cr) * MeanUnit) \div n) * 3
        - ((Tot("max_drawdown", DOMAIN cr) * MeanUnit) \div n)

\* C1: when optimize_strategy_params returns, every one of the 243 grid
\* combinations has been evaluated exactly once (three backtests each, no
\* early exit), and if some combination is valid the returned parameters are
\* those of the first combination, in Cartesian-product order, whose
\* composite score is the maximum over the valid combinations, with
\* best_score that maximum.  The result is a function of the grid and the
\* backtest results alone.
C1_ExhaustiveFirstMax ==
    pc = "done" =>
        LET valid == { i \in 1..243 : IsValidCombo(i) }
            sc    == [i \in valid |-> TableScore(i)]
            first == CHOOSE i \in valid :
                        /\ \A j \in valid : sc[j] <= sc[i]
                        /\ \A j \in valid : sc[j] = sc[i] => i <= j
        IN  /\ Len(evaluated) = 243
            /\ calls = 243 * NumTestStocks
            /\ \A g \in Grid :
                 Cardinality({ i \in 1..Len(evaluated) : evaluated[i] = g }) = 1
            /\ returned.done
            /\ valid # {} =>
                   /\ returned.params = param_combinations[first]
                   /\ best_score = Score(sc[first])

\* a finished scan in which the maximal score is reached by two combinations
\* and the first valid combination is not the best
C1_Witness ==
    /\ pc = "done"
    /\ Len(all_results) >= 3
    /\ all_results[1].score < best_score.val
    /\ \E i, j \in 1..Len(all_results) :
           /\ i < j
           /\ all_results[i].score = best_score.val
           /\ all_results[j].score = best_score.val
           /\ all_results[i].params # all_results[j].params

\* the result the table hands the call being made
HandedResult == table[StubKey(param_combinations[combo_idx])][sym_idx]

\* C2: every step of the scan.  A backtest result is appended to
\* stock_metrics only if it is a metrics record with trade_count >= 2 (never
\* None, never the zero-trade record), and is dropped otherwise.  At the end
\* of a combination's loop body the combination is scored and appended to
\* all_results, and may replace best_score/best_params, only if
\* stock_metrics holds at least 2 results; otherwise all_results, best_score
\* and best_params are left as they were.
C2_ValidOnly ==
    [][ /\ (pc = "scan" /\ sym_idx' = sym_idx + 1) =>
              /\ combo_idx' = combo_idx
              /\ UNCHANGED <<all_results, best_score, best_params>>
              /\ IF /\ HandedResult.kind = "metrics"
                    /\ HandedResult.trade_count >= 2
                 THEN stock_metrics' = Append(stock_metrics, HandedResult)
                 ELSE stock_metrics' = stock_metrics
              /\ HandedResult \in {None, ZeroTrades} =>
                     stock_metrics' = stock_metrics
        /\ (pc = "scan" /\ combo_idx' = combo_idx + 1) =>
              IF Len(stock_metrics) < 2
              THEN UNCHANGED <<all_results, best_score, best_params>>
              ELSE /\ Len(all_results') = Len(all_results) + 1
                   /\ all_results'[Len(all_results')].params
                          = param_combinations[combo_idx]
                   /\ \/ UNCHANGED <<best_score, best_params>>
                      \/ /\ best_params' = param_combinations[combo_idx]
                         /\ best_score' =
                              Score(all_results'[Len(all_results')].score)
      ]_vars

\* a finished scan that skipped the combinations with exactly one counting
\* result (beside a None and a zero-trade result) and logged the others
C2_Witness ==
    /\ pc = "done"
    /\ \E k \in 1..NumKeys : table[k] = <<None, ZeroTrades, ResultA>>
    /\ all_results # <<>>
    /\ Len(all_results) < Len(evaluated)

---------------------------------------------------------------------------
(* Claims about the program as written *)

\* C10: no backtest that yields no result stops the scan: the function never
\* aborts, every call moves the scan on by one stock, the scan ends after
\* 243 * 3 calls, and when no combination was valid the function returns the
\* default parameters and appends nothing to the optimization log.
C10_NoResultNeverAborts ==
    /\ pc # "aborted"
    /\ pc = "scan" => calls = (combo_idx - 1) * NumTestStocks + (sym_idx - 1)
    /\ pc = "done" =>
           /\ calls = 243 * NumTestStocks
           /\ Len(evaluated) = 243
           /\ returned.done
           /\ all_results = <<>> =>
                  /\ returned.params = StrategyParams(5, 20, 5, 5, 5)
                  /\ log_rows = <<>>

\* a finished scan that met a failed fetch, a short series and an exception
\* inside backtest_strategy, and in which no combination was valid
C10_Witness ==
    /\ pc = "done"
    /\ causes = {"fetch_failure", "insufficient_history", "internal_exception"}
    /\ all_results = <<>>
    /\ returned.done


---------------------------------------------------------------------------
(* Exact arithmetic for the ledger's metrics: natural numbers as sequences *)
(* of digits in base BigBase, least significant first, without leading     *)
(* zeros (<<>> is 0); fractions as pairs of them.                          *)

BigBase == 10 * 100

RECURSIVE ToBig(_)
ToBig(n) == IF n = 0 THEN <<>> ELSE <<n % BigBase>> \o ToBig(n \div BigBase)

RECURSIVE BigTrim(_)
BigTrim(a) ==
    IF a = <<>> THEN <<>>
    ELSE IF a[Len(a)] = 0 THEN BigTrim(SubSeq(a, 1, Len(a) - 1))
    ELSE a

Digit(a, i) == IF i <= Len(a) THEN a[i] ELSE 0

RECURSIVE BigAddFrom(_, _, _, _)
BigAddFrom(a, b, i, carry) ==
    IF i > Len(a) /\ i > Len(b)
    THEN (IF carry = 0 THEN <<>> ELSE <<carry>>)
    ELSE LET t == Digit(a, i) + Digit(b, i) + carry
         IN  <<t % BigBase>> \o BigAddFrom(a, b, i + 1, t \div BigBase)

BigAdd(a, b) == BigAddFrom(a, b, 1, 0)

\* a - b for a >= b
RECURSIVE BigSubFrom(_, _, _, _)
BigSubFrom(a, b, i, borrow) ==
    IF i > Len(a) THEN <<>>
    ELSE LET t == Digit(a, i) - Digit(b, i) - borrow
         IN  IF t < 0
             THEN <<t + BigBase>> \o BigSubFrom(a, b, i + 1, 1)
             ELSE <<t>> \o BigSubFrom(a, b, i + 1, 0)

BigSub(a, b) == BigTrim(BigSubFrom(a, b, 1, 0))

\* a * m for a digit m
RECURSIVE BigMulDigitFrom(_, _, _, _)
BigMulDigitFrom(a, m, i, carry) ==
    IF i > Len(a) THEN (IF carry = 0 THEN <<>> ELSE <<carry>>)
    ELSE LET t == a[i] * m + carry
         IN  <<t % BigBase>> \o BigMulDigitFrom(a, m, i + 1, t \div BigBase)

RECURSIVE BigMul(_, _)
BigMul(a, b) ==
    IF a = <<>> \/ b = <<>> THEN <<>>
    ELSE BigTrim(BigAdd(BigMulDigitFrom(a, Head(b), 1, 0),
                        <<0>> \o BigMul(a, Tail(b))))

\* -1, 0, 1 as a < b, a = b, a > b
RECURSIVE BigCmpFrom(_, _, _)
BigCmpFrom(a, b, i) ==
    IF i = 0 THEN 0
    ELSE IF a[i] < b[i] THEN -1
    ELSE IF a[i] > b[i] THEN 1
    ELSE BigCmpFrom(a, b, i - 1)

BigCmp(a, b) ==
    IF Len(a) < Len(b) THEN -1
    ELSE IF Len(a) > Len(b) THEN 1
    ELSE BigCmpFrom(a, b, Len(a))

\* a signed fraction sign * num / den, den > 0
SFrac(sign, num, den) == [sign |-> sign, num |-> num, den |-> den]

\* -1, 0, 1 as x < y, x = y, x > y
SFracCmp(x, y) ==
    IF x.sign # y.sign THEN (IF x.sign < y.sign THEN -1 ELSE 1)
    ELSE IF x.sign = 0 THEN 0
    ELSE x.sign * BigCmp(BigMul(x.num, y.den), BigMul(y.num, x.den))

---------------------------------------------------------------------------
(* Indicators: lines 254-257 and 422-425.  A bar is [close, low, high];    *)
(* the date of row i of a series is i.                                     *)

Bar(c, l, h) == [close |-> c, low |-> l, high |-> h]

WindowStart(i, w) == IF i - w + 1 < 1 THEN 1 ELSE i - w + 1

\* df["收盘"].rolling(window=w, min_periods=1).mean() at row i, as sum/count
RollingMean(d, i, w) ==
    LET a == WindowStart(i, w)
    IN  [num |-> SumSeq([k \in 1..(i - a + 1) |-> d[a + k - 1].close]),
         den |-> i - a + 1]

\* df["最低"].rolling(window=w, min_periods=1).min() at row i
RollingMinLow(d, i, w) ==
    LET a == WindowStart(i, w)
    IN  CHOOSE m \in { d[k].low : k \in a..i } :
            \A k \in a..i : m <= d[k].low

\* df["最高"].rolling(window=w, min_periods=1).max() at row i
RollingMaxHigh(d, i, w) ==
    LET a == WindowStart(i, w)
    IN  CHOOSE m \in { d[k].high : k \in a..i } :
            \A k \in a..i : m >= d[k].high

MeanLt(x, y) == x.num * y.den < y.num * x.den
MeanLe(x, y) == x.num * y.den <= y.num * x.den

ma_short(d, p, i)   == RollingMean(d, i, p.MA_SHORT)
ma_long(d, p, i)    == RollingMean(d, i, p.MA_LONG)
support(d, p, i)    == RollingMinLow(d, i, p.SUPPORT_RESIST_DAYS)
resistance(d, p, i) == RollingMaxHigh(d, i, p.SUPPORT_RESIST_DAYS)

---------------------------------------------------------------------------
(* backtest_strategy: the entry and exit rules of lines 260-269, read      *)
(* element-wise with each comparison taken whole (the grouping the         *)
(* expressions are written for; as Python parses them they raise, see      *)
(* SignalColumns), and the trading loop of lines 271-294 over them.        *)
(* shift(1) has no value at the first row, where its comparisons are       *)
(* False.                                                                  *)

\* an entry rule whose tolerance is an absolute price step, not a ratio
bt_buy_signal_absolute(d, p, i) ==
    /\ i > 1
    /\ MeanLt(ma_short(d, p, i - 1), ma_long(d, p, i - 1))
    /\ MeanLt(ma_long(d, p, i), ma_short(d, p, i))
    /\ d[i].close <= support(d, p, i) + p.BUY_MARGIN
    /\ d[i].close * 100 > support(d, p, i) * 95

bt_buy_signal(d, p, i) ==
    /\ i > 1
    /\ MeanLt(ma_short(d, p, i - 1), ma_long(d, p, i - 1))
    /\ MeanLt(ma_long(d, p, i), ma_short(d, p, i))
    /\ d[i].close * MarginUnit <= support(d, p, i) * (MarginUnit + p.BUY_MARGIN)
    /\ d[i].close * 100 > support(d, p, i) * 95

bt_sell_signal(d, p, i) ==
    \/ /\ i > 1
       /\ MeanLt(ma_long(d, p, i - 1), ma_short(d, p, i - 1))
       /\ MeanLt(ma_short(d, p, i), ma_long(d, p, i))
    \/ d[i].close * 1000 < support(d, p, i) * 985

\* a fraction num/den in lowest terms, den > 0
Frac(num, den) ==
    LET g == GCD(Abs(num), den)
    IN  [num |-> num \div g, den |-> den \div g]

\* lines 284-286; prices are in 1/MarginUnit
return_rate_of(buy_px, sell_px) ==
    LET net_buy  == buy_px * (CostUnit + transaction_cost)
        net_sell == sell_px * (CostUnit - transaction_cost)
    IN  Frac(net_sell - net_buy, net_buy)

LoopStart ==
    [position |-> 0, buy_price |-> 0, buy_date |-> 0, trades |-> <<>>,
     sells |-> 0]

\* a loop whose exit branch does not test the position
LoopBodyNoPositionTest(st, d, p, i) ==
    IF bt_buy_signal(d, p, i) /\ st.position = 0
    THEN [st EXCEPT !.buy_price = d[i].close * (MarginUnit + p.BUY_MARGIN),
                    !.position = 1,
                    !.buy_date = i]
    ELSE IF bt_sell_signal(d, p, i)
    THEN LET sell_price == d[i].close * (MarginUnit - p.SELL_MARGIN)
         IN  [st EXCEPT !.trades = Append(st.trades,
                            [buy_date    |-> st.buy_date,
                             sell_date   |-> i,
                             buy_price   |-> st.buy_price,
                             sell_price  |-> sell_price,
                             return_rate |-> return_rate_of(
                                 IF st.buy_price = 0 THEN 1 ELSE st.buy_price,
                                 sell_price)]),
                        !.position = 0,
                        !.sells = st.sells + st.position]
    ELSE st

\* one iteration of `for idx, row in df.iterrows()`, lines 277-294
LoopBody(st, d, p, i) ==
    IF bt_buy_signal(d, p, i) /\ st.position = 0
    THEN [st EXCEPT !.buy_price = d[i].close * (MarginUnit + p.BUY_MARGIN),
                    !.position = 1,
                    !.buy_date = i]
    ELSE IF bt_sell_signal(d, p, i) /\ st.position = 1
    THEN LET sell_price == d[i].close * (MarginUnit - p.SELL_MARGIN)
         IN  [st EXCEPT !.trades = Append(st.trades,
                            [buy_date    |-> st.buy_date,
                             sell_date   |-> i,
                             buy_price   |-> st.buy_price,
                             sell_price  |-> sell_price,
                             return_rate |-> return_rate_of(st.buy_price,
                                                            sell_price)]),
                        !.position = 0,
                        !.sells = st.sells + 1]
    ELSE st

\* the loop's state after the first n rows
RECURSIVE RunLoop(_, _, _)
RunLoop(d, p, n) ==
    IF n = 0 THEN LoopStart ELSE LoopBody(RunLoop(d, p, n - 1), d, p, n)


---------------------------------------------------------------------------
(* backtest_strategy: the metrics of lines 296-317 *)

FracMul(x, y) ==
    SFrac(x.sign * y.sign, BigMul(x.num, y.num), BigMul(x.den, y.den))

\* 1 + return_rate
Growth(t) ==
    SFrac(1, ToBig(t.return_rate.num + t.return_rate.den),
          ToBig(t.return_rate.den))

\* (1 + trade_df["return_rate"]).cumprod() at row i
RECURSIVE cum_return(_, _)
cum_return(ts, i) ==
    IF i = 1 THEN Growth(ts[1])
    ELSE FracMul(cum_return(ts, i - 1), Growth(ts[i]))

\* a running extreme that follows the curve down instead of up
RECURSIVE cum_min(_, _)
cum_min(ts, i) ==
    IF i = 1 THEN cum_return(ts, 1)
    ELSE LET m == cum_min(ts, i - 1)
             c == cum_return(ts, i)
         IN  IF SFracCmp(c, m) < 0 THEN c ELSE m

\* trade_df["cum_return"].cummax() at row i
RECURSIVE cum_max(_, _)
cum_max(ts, i) ==
    IF i = 1 THEN cum_return(ts, 1)
    ELSE LET m == cum_max(ts, i - 1)
             c == cum_return(ts, i)
         IN  IF SFracCmp(c, m) > 0 THEN c ELSE m

\* (cum_return - cum_max) / cum_max at row i
drawdown(ts, i) ==
    LET c == cum_return(ts, i)
        m == cum_max(ts, i)
        x == BigMul(c.num, m.den)
        y == BigMul(m.num, c.den)
        o == BigCmp(x, y)
    IN  SFrac(o,
              IF o > 0 THEN BigSub(x, y) ELSE BigSub(y, x),
              BigMul(c.den, m.num))

\* trade_df["drawdown"].min()
RECURSIVE MinDrawdown(_, _)
MinDrawdown(ts, i) ==
    IF i = 1 THEN drawdown(ts, 1)
    ELSE LET m == MinDrawdown(ts, i - 1)
             x == drawdown(ts, i)
         IN  IF SFracCmp(x, m) < 0 THEN x ELSE m

\* annual_return = (1 + total_return) ** (365 / history_days) - 1, kept as
\* the growth 1 + total_return it is the increasing function of
Annualized(growth) == [growth |-> growth, days |-> <<365, history_days>>]

FracOne  == SFrac(1, ToBig(1), ToBig(1))
FracZero == SFrac(0, <<>>, ToBig(1))

\* line 298: {"annual_return": 0, "win_rate": 0, "max_drawdown": 0,
\* "trade_count": 0}
NoTradeMetrics ==
    Metrics(Annualized(FracOne), [num |-> 0, den |-> 1], FracZero, 0)

\* lines 300-317
LedgerMetrics(ts) ==
    Metrics(Annualized(cum_return(ts, Len(ts))),
            [num |-> Cardinality({ i \in 1..Len(ts) : ts[i].return_rate.num > 0 }),
             den |-> Len(ts)],
            MinDrawdown(ts, Len(ts)),
            Len(ts))

\* an end of series that sells an open position at the last close
FinalLedgerLiquidated(st, d, p) ==
    IF st.position = 1
    THEN Append(st.trades,
                [buy_date    |-> st.buy_date,
                 sell_date   |-> Len(d),
                 buy_price   |-> st.buy_price,
                 sell_price  |-> d[Len(d)].close * (MarginUnit - p.SELL_MARGIN),
                 return_rate |-> return_rate_of(st.buy_price,
                                d[Len(d)].close * (MarginUnit - p.SELL_MARGIN))])
    ELSE st.trades

\* the ledger the metrics are computed from: trades, as the loop left it
FinalLedger(st, d, p) == st.trades

\* the value returned for a series whose loop ended in state st
BacktestReturn(st, d, p) ==
    LET ledger == FinalLedger(st, d, p)
    IN  IF ledger = <<>> THEN NoTradeMetrics ELSE LedgerMetrics(ledger)

---------------------------------------------------------------------------
(* SpecBacktest: the trading loop and the metrics over every series of up  *)
(* to MaxBars bars.  The series stands for one that passed the coverage    *)
(* test of line 249; MaxBars keeps it short enough to enumerate, so        *)
(* ma_long is always the mean of all bars so far.                          *)

MaxBars == 10

LoopBars == { Bar(100, 99, 101), Bar(96, 96, 97) }

LoopParams ==
    { StrategyParams(4, 18, 4, 4, 4),
      StrategyParams(5, 20, 4, 6, 5),
      StrategyParams(4, 20, 5, 6, 6),
      StrategyParams(5, 22, 5, 5, 4) }

LoopState ==
    [position |-> position, buy_price |-> buy_price, buy_date |-> buy_date,
     trades |-> trades, sells |-> sells]

LoopStep ==
    /\ bt_pc = "loop"
    /\ idx <= Len(df)
    /\ LET st == LoopBody(LoopState, df, params, idx)
       IN  /\ position' = st.position
           /\ buy_price' = st.buy_price
           /\ buy_date' = st.buy_date
           /\ trades' = st.trades
           /\ sells' = st.sells
    /\ idx' = idx + 1
    /\ UNCHANGED <<bt_pc, df, params, bt_result>>
    /\ UNCHANGED <<optVars, sigVars, selVars, gsVars>>

Finish ==
    /\ bt_pc = "loop"
    /\ idx > Len(df)
    /\ bt_result' = BacktestReturn(LoopState, df, params)
    /\ bt_pc' = "done"
    /\ UNCHANGED <<df, params, idx, position, buy_price, buy_date, trades, sells>>
    /\ UNCHANGED <<optVars, sigVars, selVars, gsVars>>

InitBacktest ==
    /\ OptStart
    /\ SelIdle
    /\ GsIdle
    /\ table = NoTable
    /\ SigIdle
    /\ bt_pc = "loop"
    /\ df \in UNION { [1..n -> LoopBars] : n \in 1..MaxBars }
    /\ params \in LoopParams
    /\ idx = 1
    /\ position = 0
    /\ buy_price = 0
    /\ buy_date = 0
    /\ trades = <<>>
    /\ sells = 0
    /\ bt_result = None

NextBacktest ==
    \/ LoopStep
    \/ Finish

SpecBacktest == InitBacktest /\ [][NextBacktest]_vars

---------------------------------------------------------------------------
(* generate_trading_signals, lines 403-520: one iteration per row of       *)
(* top5_stocks.  The signal strings are written BUY (买入), SELL (卖出),   *)
(* HOLD (持有) and WATCH (观望).                                           *)

SignalTail == 30

\* .tail(30).reset_index(drop=True)
tail(d, n) == IF Len(d) <= n THEN d ELSE SubSeq(d, Len(d) - n + 1, Len(d))

\* prev_latest = df.iloc[-2] if len(df) >= 2 else latest
PrevLatest(d) == IF Len(d) >= 2 THEN Len(d) - 1 ELSE Len(d)

\* an entry rule whose previous-bar test is strict
live_buy_signal_strict(d, p) ==
    LET n == Len(d)
        q == PrevLatest(d)
    IN  /\ MeanLt(ma_long(d, p, n), ma_short(d, p, n))
        /\ MeanLt(ma_short(d, p, q), ma_long(d, p, q))
        /\ d[n].close * MarginUnit <= support(d, p, n) * (MarginUnit + p.BUY_MARGIN)
        /\ d[n].close * 100 > support(d, p, n) * 95
        /\ ma_short(d, p, n).num > 0
        /\ ma_long(d, p, n).num > 0

\* buy_signal, lines 431-437
live_buy_signal(d, p) ==
    LET n == Len(d)
        q == PrevLatest(d)
    IN  /\ MeanLt(ma_long(d, p, n), ma_short(d, p, n))
        /\ MeanLe(ma_short(d, p, q), ma_long(d, p, q))
        /\ d[n].close * MarginUnit <= support(d, p, n) * (MarginUnit + p.BUY_MARGIN)
        /\ d[n].close * 100 > support(d, p, n) * 95
        /\ ma_short(d, p, n).num > 0
        /\ ma_long(d, p, n).num > 0

\* sell_signal, lines 438-442: the three tests are joined by `and`
live_sell_signal(d, p) ==
    LET n == Len(d)
        q == PrevLatest(d)
    IN  /\ MeanLt(ma_short(d, p, n), ma_long(d, p, n))
        /\ MeanLe(ma_long(d, p, q), ma_short(d, p, q))
        /\ d[n].close * 1000 < support(d, p, n) * 985

\* hold_signal, lines 443-446
live_hold_signal(d, p) ==
    /\ MeanLt(ma_long(d, p, Len(d)), ma_short(d, p, Len(d)))
    /\ ~live_buy_signal(d, p)
    /\ ~live_sell_signal(d, p)

\* a chain that tests the trend before the entry
SignalOfTrendFirst(d, p) ==
    IF MeanLt(ma_long(d, p, Len(d)), ma_short(d, p, Len(d))) THEN "HOLD"
    ELSE IF live_buy_signal(d, p) THEN "BUY"
    ELSE IF live_sell_signal(d, p) THEN "SELL"
    ELSE "WATCH"

\* the if / elif chain of lines 448-467
SignalOf(d, p) ==
    IF live_buy_signal(d, p) THEN "BUY"
    ELSE IF live_sell_signal(d, p) THEN "SELL"
    ELSE IF live_hold_signal(d, p) THEN "HOLD"
    ELSE "WATCH"

\* per_stock_cash = initial_cash * invest_ratio / signal_stock_count
per_stock_cash == (100000 * 7) \div (10 * 5)

\* the dictionary appended to trading_signals (the fields the claims read)
SignalRow(code, d, p) ==
    [code       |-> code,
     close      |-> d[Len(d)].close,
     support    |-> support(d, p, Len(d)),
     resistance |-> resistance(d, p, Len(d)),
     signal     |-> SignalOf(d, p),
     buy_amount |-> IF live_buy_signal(d, p)
                    THEN per_stock_cash \div d[Len(d)].close
                    ELSE 0]

\* what ak.stock_zh_a_hist yields for a stock: an exception or a history
FetchFailed == [ok |-> FALSE, rows |-> <<>>]
Fetched(h)  == [ok |-> TRUE, rows |-> h]

\* the try body runs to the append: the fetch succeeded and df.iloc[-1]
\* found a row
SignalAppend ==
    /\ sig_pc = "loop"
    /\ stock_no <= Len(top5_stocks)
    /\ top5_stocks[stock_no].ok
    /\ tail(top5_stocks[stock_no].rows, SignalTail) # <<>>
    /\ LET d == tail(top5_stocks[stock_no].rows, SignalTail)
       IN  /\ sig_df' = d
           /\ latest_signal' = SignalOf(d, sig_params)
           /\ trading_signals' =
                  Append(trading_signals, SignalRow(stock_no, d, sig_params))
    /\ stock_no' = stock_no + 1
    /\ UNCHANGED <<sig_pc, top5_stocks, sig_params>>
    /\ UNCHANGED <<optVars, btVars, selVars, gsVars>>

\* except Exception: continue.  The fetch raised (df keeps its old value),
\* or it returned no rows and df.iloc[-1] raised.
SignalSkip ==
    /\ sig_pc = "loop"
    /\ stock_no <= Len(top5_stocks)
    /\ \/ ~top5_stocks[stock_no].ok
       \/ tail(top5_stocks[stock_no].rows, SignalTail) = <<>>
    /\ sig_df' = IF top5_stocks[stock_no].ok THEN <<>> ELSE sig_df
    /\ stock_no' = stock_no + 1
    /\ UNCHANGED <<sig_pc, top5_stocks, sig_params, latest_signal, trading_signals>>
    /\ UNCHANGED <<optVars, btVars, selVars, gsVars>>

\* lines 509-511: the rows go to the signal log
SaveSignals ==
    /\ sig_pc = "loop"
    /\ stock_no > Len(top5_stocks)
    /\ sig_pc' = "saved"
    /\ UNCHANGED <<top5_stocks, stock_no, sig_df, sig_params, latest_signal,
                   trading_signals>>
    /\ UNCHANGED <<optVars, btVars, selVars, gsVars>>

---------------------------------------------------------------------------
(* SpecSig: the signal loop over every history of up to MaxSigBars bars.   *)
(* An iteration reads nothing an earlier iteration wrote, so the lists are *)
(* of one stock with any history, and of two stocks from a few histories.  *)

MaxSigBars == 6

SigBars ==
    { Bar(200, 200, 200), Bar(201, 200, 201), Bar(202, 200, 202),
      Bar(196, 196, 196) }

SigHistories == UNION { [1..n -> SigBars] : n \in 0..MaxSigBars }

SigParams ==
    { DefaultParams,
      StrategyParams(4, 18, 4, 4, 4),
      StrategyParams(4, 18, 4, 5, 5) }

GoldenCrossHistory ==
    << Bar(202, 200, 202), Bar(196, 196, 196), Bar(200, 200, 200),
       Bar(200, 200, 200), Bar(200, 200, 200), Bar(201, 200, 201) >>

DeadCrossHistory ==
    << Bar(200, 200, 200), Bar(200, 200, 200), Bar(200, 200, 200),
       Bar(200, 200, 200), Bar(200, 200, 200), Bar(196, 196, 196) >>

PairPool == { FetchFailed, Fetched(GoldenCrossHistory), Fetched(DeadCrossHistory) }

InitSig ==
    /\ OptStart
    /\ SelIdle
    /\ GsIdle
    /\ table = NoTable
    /\ BtIdle
    /\ sig_pc = "loop"
    /\ top5_stocks \in
          {<<>>, <<FetchFailed>>}
          \cup { <<Fetched(h)>> : h \in SigHistories }
          \cup { <<a, b>> : a \in PairPool, b \in PairPool }
    /\ stock_no = 1
    /\ sig_df = <<>>
    /\ sig_params \in SigParams
    /\ latest_signal = "none"
    /\ trading_signals = <<>>

NextSig ==
    \/ SignalAppend
    \/ SignalSkip
    \/ SaveSignals

SpecSig == InitSig /\ [][NextSig]_vars

---------------------------------------------------------------------------
(* Claims about the trading loop and the ledger metrics (SpecBacktest) *)

\* the ledger is chronological and non-overlapping, and an open position
\* was entered after the last recorded sale
LedgerOrdered ==
    /\ \A i \in 1..Len(trades) :
          /\ trades[i].buy_date < trades[i].sell_date
          /\ i < Len(trades) => trades[i].sell_date <= trades[i + 1].buy_date
    /\ (position = 1 /\ trades # <<>>) =>
          trades[Len(trades)].sell_date <= buy_date

\* one bar of the loop seen as a transition of the FLAT/LONG machine
TwoStateStep ==
    /\ position' \in {0, 1}
    /\ trades' # trades =>
          /\ position = 1 /\ position' = 0
          /\ trades' = Append(trades, trades'[Len(trades')])
          /\ trades'[Len(trades')].buy_date = buy_date
          /\ trades'[Len(trades')].sell_date = idx
    /\ (buy_date' # buy_date \/ buy_price' # buy_price) =>
          /\ position = 0 /\ position' = 1
          /\ buy_date' = idx
          /\ trades' = trades
    /\ position' # position => (trades' # trades \/ buy_date' # buy_date)

Scale(d, k) ==
    [i \in 1..Len(d) |-> Bar(d[i].close * k, d[i].low * k, d[i].high * k)]

Scales == {2, 7}

SameTrades(a, b) ==
    /\ Len(a) = Len(b)
    /\ \A i \in 1..Len(a) :
          /\ a[i].buy_date = b[i].buy_date
          /\ a[i].sell_date = b[i].sell_date
          /\ a[i].return_rate = b[i].return_rate

CmpRelativeChange(x, ts, j, i) ==
    LET ci == cum_return(ts, i)
        cj == cum_return(ts, j)
        a  == BigMul(ci.num, cj.den)
        b  == BigMul(cj.num, ci.den)
        o  == BigCmp(a, b)
    IN  SFracCmp(x, SFrac(o, IF o > 0 THEN BigSub(a, b) ELSE BigSub(b, a),
                          BigMul(ci.den, cj.num)))

---------------------------------------------------------------------------
(* Claims about the live signal engine (SpecSig) *)

\* the last row of trading_signals was appended by the iteration that just
\* ran, so sig_df is the history it was classified from
RowJustAppended ==
    /\ trading_signals # <<>>
    /\ trading_signals[Len(trading_signals)].code = stock_no - 1

LastSignal == trading_signals[Len(trading_signals)].signal

\* ma_short(prev) <= ma_long(prev) and ma_short(curr) > ma_long(curr)
GoldenCross(d, p) ==
    /\ MeanLe(ma_short(d, p, PrevLatest(d)), ma_long(d, p, PrevLatest(d)))
    /\ MeanLt(ma_long(d, p, Len(d)), ma_short(d, p, Len(d)))

\* ma_short(prev) >= ma_long(prev) and ma_short(curr) < ma_long(curr)
DeadCross(d, p) ==
    /\ MeanLe(ma_long(d, p, PrevLatest(d)), ma_short(d, p, PrevLatest(d)))
    /\ MeanLt(ma_short(d, p, Len(d)), ma_long(d, p, Len(d)))

\* close(curr) < support * 0.985
StopLoss(d, p) == d[Len(d)].close * 1000 < support(d, p, Len(d)) * 985

\* support * 0.95 < close(curr) <= support * (1 + buy_margin)
NearSupport(d, p) ==
    /\ support(d, p, Len(d)) * 95 < d[Len(d)].close * 100
    /\ d[Len(d)].close * MarginUnit
           <= support(d, p, Len(d)) * (MarginUnit + p.BUY_MARGIN)

\* C5 (the claim as stated): the latest bar is classified SELL whenever a
\* dead cross or a stop-loss breach holds, either one alone, provided BUY
\* does not hold.
C5_SellOnEitherTrigger ==
    RowJustAppended =>
        (((DeadCross(sig_df, sig_params) \/ StopLoss(sig_df, sig_params))
            /\ ~(GoldenCross(sig_df, sig_params) /\ NearSupport(sig_df, sig_params)))
         => LastSignal = "SELL")

\* C6: the live engine emits BUY for the latest bar iff there is a golden
\* cross (previous bar ma_short <= ma_long, latest ma_short > ma_long) and
\* support*0.95 < close <= support*(1+buy_margin); in particular a golden
\* cross with close at support + 0.5% and buy_margin >= 0.008 yields BUY.
C6_BuyIffGoldenCrossNearSupport ==
    RowJustAppended =>
        /\ LastSignal = "BUY" <=>
              (GoldenCross(sig_df, sig_params) /\ NearSupport(sig_df, sig_params))
        /\ ( /\ GoldenCross(sig_df, sig_params)
             /\ sig_df[Len(sig_df)].close * 1000
                    = support(sig_df, sig_params, Len(sig_df)) * 1005
             /\ sig_params.BUY_MARGIN * 1000 >= 8 * MarginUnit )
           => LastSignal = "BUY"

\* a golden cross on the latest bar with close at support + 0.5%,
\* classified BUY
C6_Witness ==
    /\ RowJustAppended
    /\ LastSignal = "BUY"
    /\ GoldenCross(sig_df, sig_params)
    /\ sig_df[Len(sig_df)].close * 1000
           = support(sig_df, sig_params, Len(sig_df)) * 1005
    /\ trading_signals[Len(trading_signals)].buy_amount > 0

\* the series truncated at bar i
Truncated(d, i) == SubSeq(d, 1, i)

\* C7 (the claim as stated): at every bar i the backtest's buy_signal (resp.
\* sell_signal) is true exactly when the live engine, run on the series
\* truncated at bar i with the same parameters, satisfies its BUY (resp.
\* SELL) condition.
C7_BacktestRulesAreLiveRules ==
    RowJustAppended =>
        \A i \in 1..Len(sig_df) :
            /\ bt_buy_signal(sig_df, sig_params, i)
                   <=> live_buy_signal(Truncated(sig_df, i), sig_params)
            /\ bt_sell_signal(sig_df, sig_params, i)
                   <=> live_sell_signal(Truncated(sig_df, i), sig_params)

---------------------------------------------------------------------------
(* select_top5_stocks, lines 184-233.  Scores are counted in hundredths    *)
(* (round(total_score, 2)) and are never negative; NaN, the float a score  *)
(* can also be, is the one value below zero.                              *)

NaN == 0 - 1

\* x >= y on floats: False when x is NaN
FloatGe(x, y) == x # NaN /\ x >= y

top_stock_count == 5

PrimaryThreshold == 30 * 100
FillThreshold    == 20 * 100
PresetScore      == 25 * 100

preset_codes == << "601899", "600519", "000651", "600028", "601988" >>

\* the codes of the pool, in the pool's row order
PoolCodes ==
    << "601899", "000333", "600036", "000858", "601318", "002594",
       "600000", "600030" >>

\* the row of least index among those of greatest score
BestRow(rows, sc) ==
    CHOOSE i \in rows :
        \A j \in rows : sc[j] < sc[i] \/ (sc[j] = sc[i] /\ i <= j)

\* a fill that takes the rows in pool order, not by score
RECURSIVE head_rows(_, _, _)
head_rows(n, rows, sc) ==
    IF n = 0 \/ rows = {} THEN <<>>
    ELSE LET b == CHOOSE i \in rows : \A j \in rows : i <= j
         IN  <<b>> \o head_rows(n - 1, rows \ {b}, sc)

\* .nlargest(n, "短线评分"): descending score, ties in row order
RECURSIVE nlargest(_, _, _)
nlargest(n, rows, sc) ==
    IF n = 0 \/ rows = {} THEN <<>>
    ELSE LET b == BestRow(rows, sc)
         IN  <<b>> \o nlargest(n - 1, rows \ {b}, sc)

SelectedRow(code, score, tier) == [code |-> code, score |-> score, tier |-> tier]

TierRows(order, sc, tier) ==
    [k \in 1..Len(order) |-> SelectedRow(PoolCodes[order[k]], sc[order[k]], tier)]

\* lines 197-200
PrimaryTier(sc) ==
    nlargest(top_stock_count,
             { i \in 1..Len(sc) : FloatGe(sc[i], PrimaryThreshold) }, sc)

\* lines 203-209
FillTier(sc, chosen) ==
    nlargest(top_stock_count - Len(chosen),
             { i \in 1..Len(sc) :
                   /\ FloatGe(sc[i], FillThreshold)
                   /\ \A k \in 1..Len(chosen) : PoolCodes[chosen[k]] # PoolCodes[i] },
             sc)

\* lines 213-224
PresetTier(fill_count) ==
    [k \in 1..fill_count |-> SelectedRow(preset_codes[k], PresetScore, 3)]

\* the frame select_top5_stocks returns for the scores sc
select_top5_stocks(sc) ==
    LET t1 == PrimaryTier(sc)
        t2 == IF Len(t1) < top_stock_count THEN FillTier(sc, t1) ELSE <<>>
        n2 == Len(t1) + Len(t2)
        t3 == IF n2 < top_stock_count
              THEN PresetTier(top_stock_count - n2) ELSE <<>>
    IN  TierRows(t1, sc, 1) \o TierRows(t2, sc, 2) \o t3

\* lines 197-233, once every row has its score
SelectTop5 ==
    /\ sel_pc = "score"
    /\ Len(scores) = Len(tradable_stocks)
    /\ selected' = select_top5_stocks(scores)
    /\ sel_pc' = "done"
    /\ UNCHANGED <<tradable_stocks, scores>>
    /\ UNCHANGED <<optVars, btVars, sigVars, gsVars>>

---------------------------------------------------------------------------
(* SpecSelect: the selection over every pool of up to MaxPool rows and     *)
(* every assignment of scores from ScoreValues.                            *)

MaxPool == 6

ScoreValues == { 15 * 100, 20 * 100, 30 * 100, 35 * 100, NaN }

\* a pool row whose score is given
GivenRow == [kind |-> "given"]

InitSelect ==
    /\ OptStart
    /\ table = NoTable
    /\ BtIdle
    /\ SigIdle
    /\ GsIdle
    /\ sel_pc = "score"
    /\ scores \in UNION { [1..n -> ScoreValues] : n \in 0..MaxPool }
    /\ tradable_stocks = [i \in 1..Len(scores) |-> GivenRow]
    /\ selected = <<>>

NextSelect == SelectTop5

SpecSelect == InitSelect /\ [][NextSelect]_vars

\* the pool rows whose code is in the returned frame with tier t
ChosenIn(t) ==
    { i \in 1..Len(scores) :
        \E k \in 1..Len(selected) :
            selected[k].tier = t /\ selected[k].code = PoolCodes[i] }

TierCount(t) == Cardinality({ k \in 1..Len(selected) : selected[k].tier = t })

---------------------------------------------------------------------------
(* calculate_short_term_score, lines 101-182, in exact fractions.  A       *)
(* fraction with den = 0 is NaN (0.0 / 0.0 on numpy floats, which warns    *)
(* and does not raise).                                                    *)

QNaN == [num |-> 0, den |-> 0]
IsNaN(x) == x.den = 0
Q(n, d) == Frac(n, d)

\* float comparisons: False when either side is NaN
QLt(x, y) == ~IsNaN(x) /\ ~IsNaN(y) /\ x.num * y.den < y.num * x.den
QLe(x, y) == ~IsNaN(x) /\ ~IsNaN(y) /\ x.num * y.den <= y.num * x.den

QAdd(x, y) ==
    IF IsNaN(x) \/ IsNaN(y) THEN QNaN
    ELSE Frac(x.num * y.den + y.num * x.den, x.den * y.den)

QSub(x, y) ==
    IF IsNaN(x) \/ IsNaN(y) THEN QNaN
    ELSE Frac(x.num * y.den - y.num * x.den, x.den * y.den)

QMul(x, y) ==
    IF IsNaN(x) \/ IsNaN(y) THEN QNaN
    ELSE Frac(x.num * y.num, x.den * y.den)

QAbs(x) == [x EXCEPT !.num = Abs(x.num)]

\* x / y on numpy floats; 0 / 0 is NaN (a nonzero x over 0 does not arise:
\* the 5-day mean of a non-negative column is 0 when its 20-day mean is)
QDiv(x, y) ==
    IF IsNaN(x) \/ IsNaN(y) \/ y.num = 0 THEN QNaN
    ELSE IF y.num > 0 THEN Frac(x.num * y.den, x.den * y.num)
    ELSE Frac(-(x.num * y.den), x.den * (-y.num))

\* Python's max(a, b) and min(a, b): a unless b compares beyond it
PyMax(a, b) == IF QLt(a, b) THEN b ELSE a
PyMin(a, b) == IF QLt(b, a) THEN b ELSE a

\* round(x, 2) in hundredths, ties to even; NaN stays NaN
Round2(x) ==
    IF IsNaN(x) THEN NaN
    ELSE LET h == x.num * 100
             q == h \div x.den
             r == h % x.den
         IN  IF 2 * r < x.den THEN q
             ELSE IF 2 * r > x.den THEN q + 1
             ELSE IF q % 2 = 0 THEN q ELSE q + 1

MinScoreBars == 60

\* What scoring a stock reads.  A history is four runs of constant close,
\* oldest first: d (the bars before the last 20), c (10 bars), b (5 bars),
\* a (the last 5 bars), with the close of the third bar from the end lowered
\* by e; volume and turnover are vb / tb on the 15 bars before the last 5
\* and va / ta on the last 5.
RaisedFetch == [kind |-> "raise"]

History(n, a, b, c, d, e, va, vb, turnover, ta, tb) ==
    [kind |-> "frame", n |-> n, a |-> a, b |-> b, c |-> c, d |-> d, e |-> e,
     va |-> va, vb |-> vb, turnover |-> turnover, ta |-> ta, tb |-> tb]

\* a return factor that is not clamped
return_score_unclamped(x) == QMul(Q(x.a - x.b, x.b), Q(150, 1))

\* lines 118-123
return_score(x) ==
    LET recent_5d_return == Q(x.a - x.b, x.b)
    IN  PyMin(PyMax(QMul(recent_5d_return, Q(150, 1)), Q(0, 1)), Q(30, 1))

\* lines 125-129
volume_score(x) ==
    LET recent_5d_volume  == Q(x.va, 1)
        recent_20d_volume == Q(5 * x.va + 15 * x.vb, 20)
        volume_ratio == IF QLt(Q(0, 1), recent_20d_volume)
                        THEN QDiv(recent_5d_volume, recent_20d_volume)
                        ELSE Q(0, 1)
    IN  PyMin(PyMax(QMul(QSub(volume_ratio, Q(1, 2)), Q(20, 1)), Q(0, 1)),
              Q(20, 1))

\* lines 131-142
ma_score(x) ==
    LET s5   == 5 * x.a - x.e
        s10  == s5 + 5 * x.b
        s20  == s10 + 10 * x.c
        s60  == s20 + 40 * x.d
        ma5  == Q(s5, 5)
        ma10 == Q(s10, 10)
        ma20 == Q(s20, 20)
        ma60 == Q(s60, 60)
    IN  IF QLt(ma10, ma5) /\ QLt(ma20, ma10) /\ QLt(ma60, ma20) /\ QLt(Q(0, 1), ma60)
        THEN Q(20, 1)
        ELSE PyMin(PyMax(QMul(QDiv(QSub(ma5, ma20), ma20), Q(200, 1)), Q(0, 1)),
                   Q(15, 1))

\* lines 144-156: the last 14 differences hold the steps c -> b and b -> a
\* and the one-day dip and recovery e
rsi_score(x) ==
    LET gain == Q(Max(x.b - x.c, 0) + Max(x.a - x.b, 0) + x.e, 14)
        loss == Q(Max(x.c - x.b, 0) + Max(x.b - x.a, 0) + x.e, 14)
        rs   == IF QLt(Q(0, 1), loss) THEN QDiv(gain, loss) ELSE Q(0, 1)
        rsi14 == IF QLe(Q(0, 1), rs)
                 THEN QSub(Q(100, 1), QDiv(Q(100, 1), QAdd(Q(1, 1), rs)))
                 ELSE Q(0, 1)
    IN  IF QLe(Q(50, 1), rsi14) /\ QLe(rsi14, Q(70, 1)) THEN Q(15, 1)
        ELSE IF \/ (QLe(Q(40, 1), rsi14) /\ QLt(rsi14, Q(50, 1)))
                \/ (QLt(Q(70, 1), rsi14) /\ QLe(rsi14, Q(80, 1)))
             THEN Q(10, 1)
        ELSE Q(3, 1)

\* lines 158-165
turnover_score(x) ==
    IF x.turnover
    THEN LET turnover_5d  == Q(x.ta, 1)
             turnover_20d == Q(5 * x.ta + 15 * x.tb, 20)
             turnover_stability ==
                 PyMin(PyMax(QSub(Q(1, 1),
                                  QDiv(QAbs(QSub(turnover_5d, turnover_20d)),
                                       turnover_20d)),
                             Q(0, 1)),
                       Q(1, 1))
         IN  QMul(turnover_stability, Q(15, 1))
    ELSE Q(8, 1)

\* lines 167-174
total_score(x) ==
    QAdd(QAdd(QAdd(QAdd(QMul(return_score(x), Q(3, 10)),
                        QMul(volume_score(x), Q(2, 10))),
                   QMul(ma_score(x), Q(2, 10))),
              QMul(rsi_score(x), Q(15, 100))),
         QMul(turnover_score(x), Q(15, 100)))

\* the value returned, in hundredths (NaN when the total is NaN)
calculate_short_term_score(x) ==
    IF x.kind = "raise" THEN 0
    ELSE IF x.n < MinScoreBars THEN 0
    ELSE Round2(total_score(x))

\* lines 190-192: one row of the pool is scored
ScoreStock ==
    /\ sel_pc = "score"
    /\ Len(scores) < Len(tradable_stocks)
    /\ scores' = Append(scores,
                        calculate_short_term_score(tradable_stocks[Len(scores) + 1]))
    /\ UNCHANGED <<sel_pc, tradable_stocks, selected>>
    /\ UNCHANGED <<optVars, btVars, sigVars, gsVars>>

---------------------------------------------------------------------------
(* SpecScore: scoring and selection.  Scoring a row reads nothing another  *)
(* row wrote, so the pools are of one stock with any history, and of six   *)
(* stocks from three named outcomes.                                       *)

ScoreCloses    == {90, 100, 120}
ScoreDips      == {0, 15}
ScoreVolumes   == {0, 1, 3}
ScoreTurnovers == {0, 1, 2}

ScoreHistories ==
    { History(MinScoreBars, a, b, c, d, e, va, vb, t, ta, tb) :
        a \in ScoreCloses, b \in ScoreCloses, c \in ScoreCloses,
        d \in ScoreCloses, e \in ScoreDips,
        va \in ScoreVolumes, vb \in ScoreVolumes,
        t \in {TRUE}, ta \in ScoreTurnovers, tb \in ScoreTurnovers }
    \cup
    { History(MinScoreBars, a, b, c, d, e, va, vb, FALSE, 0, 0) :
        a \in ScoreCloses, b \in ScoreCloses, c \in ScoreCloses,
        d \in ScoreCloses, e \in ScoreDips,
        va \in ScoreVolumes, vb \in ScoreVolumes }

\* every factor at its ceiling
BestHistory == History(MinScoreBars, 120, 100, 100, 100, 15, 3, 1, TRUE, 1, 1)

\* one bar short of MinScoreBars
ShortHistory == History(MinScoreBars - 1, 120, 100, 100, 100, 15, 3, 1, TRUE, 1, 1)

SixPool == { BestHistory, ShortHistory, RaisedFetch }

InitScore ==
    /\ OptStart
    /\ table = NoTable
    /\ BtIdle
    /\ SigIdle
    /\ GsIdle
    /\ sel_pc = "score"
    /\ tradable_stocks \in
          {<<>>, <<RaisedFetch>>, <<ShortHistory>>}
          \cup { <<h>> : h \in ScoreHistories }
          \cup [1..6 -> SixPool]
    /\ scores = <<>>
    /\ selected = <<>>

NextScore ==
    \/ ScoreStock
    \/ SelectTop5

SpecScore == InitScore /\ [][NextScore]_vars

\* C12 (the claim as stated): every score is a value in [0, 100], and it is
\* exactly 0 when the history has fewer than 60 bars or the fetch raised.
C12_ScoreInRange ==
    \A i \in 1..Len(scores) :
        /\ scores[i] # NaN
        /\ 0 <= scores[i] /\ scores[i] <= 100 * 100
        /\ (tradable_stocks[i].kind = "raise"
              \/ tradable_stocks[i].n < MinScoreBars) => scores[i] = 0

\* a factor lies in [lo, hi], or is NaN
InRangeOrNaN(x, lo, hi) == IsNaN(x) \/ (QLe(Q(lo, 1), x) /\ QLe(x, Q(hi, 1)))

\* C17: no score exceeds 0.3*30 + 0.2*20 + 0.2*20 + 0.15*15 + 0.15*15 =
\* 21.5, the factors being clamped to [0,30], [0,20], [0,20], {3,10,15} and
\* [0,15]; so no row reaches the primary threshold 30 and the selection
\* never takes a row through the primary tier.
C17_ScoreAtMost21_5 ==
    /\ \A i \in 1..Len(scores) :
          /\ ~FloatGe(scores[i], 2150 + 1)
          /\ ~FloatGe(scores[i], PrimaryThreshold)
          /\ tradable_stocks[i].kind = "frame" =>
                /\ InRangeOrNaN(return_score(tradable_stocks[i]), 0, 30)
                /\ InRangeOrNaN(volume_score(tradable_stocks[i]), 0, 20)
                /\ InRangeOrNaN(ma_score(tradable_stocks[i]), 0, 20)
                /\ rsi_score(tradable_stocks[i]) \in {Q(3, 1), Q(10, 1), Q(15, 1)}
                /\ InRangeOrNaN(turnover_score(tradable_stocks[i]), 0, 15)
    /\ sel_pc = "done" => TierCount(1) = 0

\* a row scored at the ceiling 21.5 and selected through the fill tier
C17_Witness ==
    /\ sel_pc = "done"
    /\ \E i \in 1..Len(scores) : scores[i] = 2150
    /\ TierCount(1) = 0
    /\ TierCount(2) >= 1

---------------------------------------------------------------------------
(* More claims about the live signal engine (SpecSig) *)

ConstantClose(d) == \A i \in 1..Len(d) : d[i].close = d[1].close

\* C13: every evaluated stock gets exactly one signal out of BUY, SELL,
\* HOLD, WATCH, chosen by precedence: BUY; else SELL; else HOLD when
\* ma_short > ma_long; else WATCH.  A history of constant close is never
\* BUY.
C13_OneSignalByPrecedence ==
    /\ \A k \in 1..Len(trading_signals) :
          /\ trading_signals[k].signal \in {"BUY", "SELL", "HOLD", "WATCH"}
          /\ k < Len(trading_signals) =>
                trading_signals[k].code < trading_signals[k + 1].code
    /\ RowJustAppended =>
          LET buy   == GoldenCross(sig_df, sig_params) /\ NearSupport(sig_df, sig_params)
              sell  == DeadCross(sig_df, sig_params) /\ StopLoss(sig_df, sig_params)
              above == MeanLt(ma_long(sig_df, sig_params, Len(sig_df)),
                              ma_short(sig_df, sig_params, Len(sig_df)))
          IN  /\ LastSignal = "BUY" <=> buy
              /\ LastSignal = "SELL" <=> (~buy /\ sell)
              /\ LastSignal = "HOLD" <=> (~buy /\ ~sell /\ above)
              /\ LastSignal = "WATCH" <=> (~buy /\ ~sell /\ ~above)
              /\ ConstantClose(sig_df) => LastSignal # "BUY"

\* a rising history that is not an entry is HOLD
C13_Witness ==
    /\ RowJustAppended
    /\ LastSignal = "HOLD"
    /\ ~ConstantClose(sig_df)
    /\ Len(sig_df) = MaxSigBars

---------------------------------------------------------------------------
(* backtest_strategy on a series that meets the coverage threshold *)

\* C15: a successfully fetched series of at least 0.8 * history_days = 144
\* bars gets a metrics record from backtest_strategy for every parameter set
\* of the grid; None is returned only for a failed fetch or insufficient
\* history, never because building buy_signal / sell_signal failed.
C15_MetricsForCoveredSeries == "internal_exception" \notin causes

---------------------------------------------------------------------------
(* the report of optimize_strategy_params, lines 391-400 *)

\* C16: when the scan has ended and a performance report was printed, the
\* reported average annual return, win rate, max drawdown and trade count
\* are the aggregate metrics of the combination returned as best_params.
C16_ReportIsOfBestParams ==
    (pc = "done" /\ reported.printed) =>
        \E k \in 1..Len(all_results) :
            /\ all_results[k].params = returned.params
            /\ reported.annual_return = all_results[k].annual_return
            /\ reported.win_rate = all_results[k].win_rate
            /\ reported.max_drawdown = all_results[k].max_drawdown
            /\ reported.trade_count = all_results[k].trade_count

---------------------------------------------------------------------------
(* trading_signal.generate_signal and main.main.  Prices are in hundredths *)
(* of a yuan, and the bars used are at whole yuan, where none of the       *)
(* values passed to round(x, 2) lies on a tie.                             *)

MA_SHORT            == 5
MA_LONG             == 20
SUPPORT_RESIST_DAYS == 5
LIMIT_UP_DOWN       == 10                       \* 0.1, in percent
BUY_MARGIN          == 1                        \* 0.01, in percent
SELL_MARGIN         == 1                        \* 0.01, in percent

\* a frame returned by an akshare call.  columns is "cn" (日期, 收盘, 最高,
\* 最低), "en" (Date, Close, High, Low) or "minute" (时间 in the place of
\* 日期, the columns of the minute interface)
Frame(cols, rows) == [kind |-> "frame", columns |-> cols, rows |-> rows]

DayRow(date, bar) ==
    [date |-> date, close |-> bar.close, low |-> bar.low, high |-> bar.high]

\* df.sort_values("日期").reset_index(drop=True); the dates of a frame differ
RECURSIVE sort_values(_)
sort_values(rows) ==
    IF rows = <<>> THEN <<>>
    ELSE LET i == CHOOSE k \in 1..Len(rows) :
                      \A j \in 1..Len(rows) : rows[k].date <= rows[j].date
         IN  <<rows[i]>> \o sort_values(RemoveAt(rows, i))

Failed(e)   == [ok |-> FALSE, error |-> e, df |-> <<>>]
Loaded(d)   == [ok |-> TRUE, error |-> "none", df |-> d]

\* the primary try block without its length check
PrimaryTryAnyLength(fetch) ==
    IF fetch.kind = "raise" THEN Failed("fetch_exception")
    ELSE IF fetch.rows = <<>> THEN Failed("ValueError_empty")
    ELSE IF fetch.columns \notin {"cn", "en"} THEN Failed("KeyError")
    ELSE Loaded(sort_values(fetch.rows))

\* lines 18-54: ak.stock_zh_a_hist and the checks inside the try
PrimaryTry(fetch) ==
    IF fetch.kind = "raise" THEN Failed("fetch_exception")     \* line 22
    ELSE IF fetch.rows = <<>> THEN Failed("ValueError_empty")  \* line 29
    ELSE IF fetch.columns \notin {"cn", "en"}
         THEN Failed("KeyError")                               \* line 36
    ELSE LET sorted == sort_values(fetch.rows)                 \* line 41
         IN  IF Len(sorted) < MA_LONG
             THEN Failed("ValueError_short")                   \* line 44
             ELSE Loaded(sorted)

\* lines 58-77: ak.stock_zh_a_hist_min_em and the checks inside the try
BackupTry(fetch) ==
    IF fetch.kind = "raise" THEN Failed("fetch_exception")     \* line 60
    ELSE IF fetch.rows = <<>> THEN Failed("ValueError_empty")  \* line 66
    ELSE IF fetch.columns # "cn" THEN Failed("KeyError")       \* line 69
    ELSE Loaded(sort_values(fetch.rows))                      \* line 70

\* round(x, 2) of num / den hundredths
RoundCents(num, den) == Round2(Q(num, den * 100))

\* lines 47-48 / 71-72 and 98-142: what generate_signal returns for the
\* frame d
SignalAndInfo(d) ==
    LET n            == Len(d)
        latest_close == RoundCents(d[n].close, 1)
        sma          == RollingMean(d, n, MA_SHORT)
        lma          == RollingMean(d, n, MA_LONG)
        short_ma     == RoundCents(sma.num, sma.den)
        long_ma      == RoundCents(lma.num, lma.den)
        prev_close   == IF n >= 2 THEN RoundCents(d[n - 1].close, 1)
                        ELSE latest_close
        limit_up     == RoundCents(prev_close * (100 + LIMIT_UP_DOWN), 100)
        limit_down   == RoundCents(prev_close * (100 - LIMIT_UP_DOWN), 100)
        recent_low   == RoundCents(RollingMinLow(d, n, SUPPORT_RESIST_DAYS), 1)
        recent_high  == RoundCents(RollingMaxHigh(d, n, SUPPORT_RESIST_DAYS), 1)
        buy_low      == Max(RoundCents(recent_low * (100 - BUY_MARGIN), 100),
                            limit_down)
        buy_high     == Min(RoundCents(recent_low * (100 + BUY_MARGIN), 100),
                            limit_up)
        sell_low     == Max(RoundCents(recent_high * (100 - SELL_MARGIN), 100),
                            limit_down)
        sell_high    == Min(RoundCents(recent_high * (100 + SELL_MARGIN), 100),
                            limit_up)
    IN  [kind             |-> "pair",
         signal           |-> IF short_ma > long_ma THEN "BUY" ELSE "HOLD",
         latest_close     |-> latest_close,
         short_ma         |-> short_ma,
         long_ma          |-> long_ma,
         limit_up         |-> limit_up,
         limit_down       |-> limit_down,
         short_buy_range  |-> <<buy_low, buy_high>>,
         short_sell_range |-> <<sell_low, sell_high>>]

\* lines 78-94
RuntimeError(e, e2) ==
    [kind |-> "RuntimeError", primary_error |-> e, backup_error |-> e2]

\* main.py line 30 entering generate_signal: the primary attempt, and on
\* success the rest of the function
PrimaryAttempt ==
    /\ gs_pc = "primary"
    /\ attempts' = Append(attempts, "primary")
    /\ LET r == PrimaryTry(primary)
       IN  IF r.ok
           THEN /\ gs_result' = SignalAndInfo(r.df)
                /\ gs_pc' = "returned"
                /\ UNCHANGED gs_errors
           ELSE /\ gs_errors' = Append(gs_errors, r.error)
                /\ gs_pc' = "backup"
                /\ UNCHANGED gs_result
    /\ UNCHANGED <<primary, backup, output, exit_status>>
    /\ UNCHANGED <<optVars, btVars, sigVars, selVars>>

\* the except branch of line 55: the backup attempt, and on success the
\* rest of the function
BackupAttempt ==
    /\ gs_pc = "backup"
    /\ attempts' = Append(attempts, "backup")
    /\ LET r == BackupTry(backup)
       IN  IF r.ok
           THEN /\ gs_result' = SignalAndInfo(r.df)
                /\ gs_pc' = "returned"
                /\ UNCHANGED gs_errors
           ELSE /\ gs_errors' = Append(gs_errors, r.error)
                /\ gs_result' = RuntimeError(gs_errors[1], r.error)
                /\ gs_pc' = "raised"
    /\ UNCHANGED <<primary, backup, output, exit_status>>
    /\ UNCHANGED <<optVars, btVars, sigVars, selVars>>

\* main.py lines 30-53: the report and the core suggestion
MainReport ==
    /\ gs_pc = "returned"
    /\ output' = [kind       |-> "suggestion",
                  signal     |-> gs_result.signal,
                  buy_range  |-> gs_result.short_buy_range,
                  sell_range |-> gs_result.short_sell_range]
    /\ exit_status' = 0
    /\ gs_pc' = "exit"
    /\ UNCHANGED <<primary, backup, attempts, gs_errors, gs_result>>
    /\ UNCHANGED <<optVars, btVars, sigVars, selVars>>

\* main.py lines 55-68: except Exception, the failure text and sys.exit(1)
MainFailure ==
    /\ gs_pc = "raised"
    /\ output' = [kind |-> "failure", error |-> gs_result]
    /\ exit_status' = 1
    /\ gs_pc' = "exit"
    /\ UNCHANGED <<primary, backup, attempts, gs_errors, gs_result>>
    /\ UNCHANGED <<optVars, btVars, sigVars, selVars>>

---------------------------------------------------------------------------
(* SpecMain: one run of main() over what the two interfaces can yield.     *)
(* A series is a run of flat bars at 100 yuan followed by up to MaxTail    *)
(* bars, each inside the +/-10% band around the close before it.           *)

MaxTail == 3

FlatBar == Bar(100 * 100, 100 * 100, 100 * 100)

GsBars ==
    { FlatBar,
      Bar(100 * 100, 90 * 100, 100 * 100),      \* dips to 90, closes at 100
      Bar(110 * 100, 100 * 100, 110 * 100),     \* closes at 110
      Bar(100 * 100, 100 * 100, 110 * 100),     \* touches 110, closes at 100
      Bar(90 * 100, 90 * 100, 100 * 100),       \* closes at 90
      Bar(90 * 100, 90 * 100, 90 * 100) }       \* flat at 90

WithinDailyLimit(prev_close, bar) ==
    /\ bar.low * 100 >= prev_close * (100 - LIMIT_UP_DOWN)
    /\ bar.high * 100 <= prev_close * (100 + LIMIT_UP_DOWN)
    /\ bar.low <= bar.close
    /\ bar.close <= bar.high

Tails ==
    { t \in UNION { [1..m -> GsBars] : m \in 0..MaxTail } :
        \A i \in 1..Len(t) :
            WithinDailyLimit(IF i = 1 THEN FlatBar.close ELSE t[i - 1].close,
                             t[i]) }

GsSeries ==
    { [i \in 1..k |-> FlatBar] \o t :
        k \in {0, MA_LONG - 1, MA_LONG}, t \in Tails }

OldestFirst(series) == [i \in 1..Len(series) |-> DayRow(i, series[i])]

NewestFirst(series) ==
    [i \in 1..Len(series) |->
        DayRow(Len(series) + 1 - i, series[Len(series) + 1 - i])]

FlatSeries(k) == [i \in 1..k |-> FlatBar]

PrimaryOutcomes ==
    { RaisedFetch }
    \cup { Frame("cn", OldestFirst(s)) : s \in GsSeries }
    \cup { Frame("cn", NewestFirst(FlatSeries(MA_LONG - 1) \o t)) : t \in Tails }
    \cup { Frame(c, OldestFirst(FlatSeries(MA_LONG))) : c \in {"en", "minute"} }

BackupOutcomes ==
    { RaisedFetch,
      Frame("minute", OldestFirst(FlatSeries(2))),
      Frame("cn", OldestFirst(FlatSeries(MA_LONG))) }
    \cup { Frame("cn", NewestFirst(t)) : t \in { u \in Tails : Len(u) <= 1 } }

InitMain ==
    /\ OptStart
    /\ table = NoTable
    /\ BtIdle
    /\ SigIdle
    /\ SelIdle
    /\ gs_pc = "primary"
    /\ primary \in PrimaryOutcomes
    /\ backup \in BackupOutcomes
    /\ attempts = <<>>
    /\ gs_errors = <<>>
    /\ gs_result = NoOutcome
    /\ output = NoOutcome
    /\ exit_status = 0

NextMain ==
    \/ PrimaryAttempt
    \/ BackupAttempt
    \/ MainReport
    \/ MainFailure

SpecMain == InitMain /\ [][NextMain]_vars

\* the primary attempt fails: exception, empty data, or fewer than MA_LONG
\* bars
PrimaryFailed ==
    \/ primary.kind = "raise"
    \/ /\ primary.kind = "frame"
       /\ \/ primary.rows = <<>>
          \/ primary.columns = "minute"
          \/ Len(primary.rows) < MA_LONG

BackupFailed ==
    \/ backup.kind = "raise"
    \/ /\ backup.kind = "frame"
       /\ \/ backup.rows = <<>>
          \/ backup.columns # "cn"

\* C14: generate_signal calls the primary source first and the backup
\* source only after the primary attempt failed (exception, empty data or
\* fewer than MA_LONG bars).  It raises one RuntimeError carrying both the
\* primary and the backup error if and only if both attempts fail, and then
\* main() reports the failure and exits with status 1 without a signal; if
\* either source succeeds a (signal, market_info) pair is returned.
C14_PrimaryThenBackup ==
    /\ attempts \in {<<>>, <<"primary">>, <<"primary", "backup">>}
    /\ Len(attempts) = 2 => PrimaryFailed
    /\ gs_pc \in {"returned", "raised", "exit"} =>
          /\ gs_result.kind \in {"pair", "RuntimeError"}
          /\ Len(attempts) = 2 <=> PrimaryFailed
          /\ gs_result.kind = "RuntimeError" <=> (PrimaryFailed /\ BackupFailed)
          /\ gs_result.kind = "RuntimeError" =>
                /\ gs_errors = <<gs_result.primary_error, gs_result.backup_error>>
                /\ gs_result.primary_error # "none"
                /\ gs_result.backup_error # "none"
                /\ gs_result.primary_error = "ValueError_short" <=>
                       (primary.kind = "frame" /\ primary.columns # "minute"
                        /\ Len(primary.rows) \in 1..(MA_LONG - 1))
          /\ gs_result.kind = "pair" => gs_result.signal \in {"BUY", "HOLD"}
    /\ gs_pc = "exit" =>
          /\ exit_status = 1 <=> gs_result.kind = "RuntimeError"
          /\ exit_status \in {0, 1}
          /\ gs_result.kind = "RuntimeError" =>
                /\ output.kind = "failure"
                /\ output.error = gs_result
          /\ gs_result.kind = "pair" =>
                /\ output.kind = "suggestion"
                /\ output.signal = gs_result.signal

\* main() has left with status 1 after a primary frame that was too short
\* and an empty backup frame
C14_Witness ==
    /\ gs_pc = "exit"
    /\ exit_status = 1
    /\ gs_result = RuntimeError("ValueError_short", "ValueError_empty")
    /\ attempts = <<"primary", "backup">>

\* the rows the returned pair was computed from
UsedRows == IF Len(attempts) = 1 THEN primary.rows ELSE backup.rows

\* C18: for every series of at least MA_LONG bars of positive prices the
\* buy range and the sell range returned by generate_signal are well-formed
\* intervals inside the daily limit band:
\* limit_down <= buy_low <= buy_high <= limit_up and
\* limit_down <= sell_low <= sell_high <= limit_up.
C18_RangesInsideLimitBand ==
    ( /\ gs_pc \in {"returned", "exit"}
      /\ Len(UsedRows) >= MA_LONG
      /\ \A i \in 1..Len(UsedRows) :
             UsedRows[i].low > 0 /\ UsedRows[i].close > 0 /\ UsedRows[i].high > 0 )
    => /\ gs_result.limit_down <= gs_result.short_buy_range[1]
       /\ gs_result.short_buy_range[1] <= gs_result.short_buy_range[2]
       /\ gs_result.short_buy_range[2] <= gs_result.limit_up
       /\ gs_result.limit_down <= gs_result.short_sell_range[1]
       /\ gs_result.short_sell_range[1] <= gs_result.short_sell_range[2]
       /\ gs_result.short_sell_range[2] <= gs_result.limit_up

===========================================================================
